---- MODULE Spec2Model ----
(***************************************************************************)
(* A model of the three batch tools of challenges-dcc that carry logic:    *)
(*   - extract_exec_time.py: calc_exec_time (a pure function of the log    *)
(*     text) and main (the per-submission download / unzip / extract /     *)
(*     remove loop),                                                       *)
(*   - print_synapse_reports.py: count_submissions (a pure function of     *)
(*     the evaluation queues and the date bounds) and print_report (the    *)
(*     per-challenge accumulation loop).                                   *)
(* Each tool has its own specification; the variables of the tools that a  *)
(* specification does not run stay at their idle values.                   *)
(***************************************************************************)
EXTENDS Integers, Sequences, FiniteSets

VARIABLES
    \* ---- calc_exec_time applied to one log text
    log,            \* the text read from the log file, a sequence of lines
    calc_out,       \* what the call produced
    cpc,            \* "idle" | "ready" | "returned"
    \* ---- count_submissions applied to one argument list
    cnt_evals,      \* the `evaluations` argument, a sequence of queue ids
    cnt_start,      \* the `start` argument: <<>> is None, <<d>> a datetime
    cnt_end,        \* the `end` argument
    cnt_out,        \* [total, queries] once the call has returned
    qpc,            \* "idle" | "ready" | "returned"
    \* ---- print_report
    challenge_ids,  \* args.challenge_ids
    start_date,     \* args.start_date
    end_date,       \* args.end_date
    k,              \* number of challenge ids the loop has processed
    unique_users,   \* the accumulator set
    total_submissions,
    printed,        \* the per-challenge lines printed so far
    totals,         \* the two summary lines, <<>> until printed
    rpc,            \* "idle" | "loop" | "done"
    \* ---- extract_exec_time.main
    dryrun,         \* args.dryrun
    rows,           \* submissions_df: one record per accepted submission
    idx,            \* 1-based position of the row being processed
    mpc,            \* position inside main
    disk,           \* files in the working directory, <<submission id, ext>>
    archive,        \* kind of the file the current download produced
    content,        \* log text inside the current archive
    csv,            \* <<>> until to_csv, then <<the rows written>>
    err,            \* "" or the exception that propagated out of main
    calls,          \* the calls main has made so far, in order
    env             \* what the environment has done so far (history)

calcVars == <<log, calc_out, cpc>>
cntVars  == <<cnt_evals, cnt_start, cnt_end, cnt_out, qpc>>
repVars  == <<challenge_ids, start_date, end_date, k, unique_users,
              total_submissions, printed, totals, rpc>>
mainVars == <<dryrun, rows, idx, mpc, disk, archive, content, csv, err,
              calls, env>>
vars == <<calcVars, cntVars, repVars, mainVars>>

(***************************************************************************)
(* Bounds                                                                  *)
(***************************************************************************)
MaxLines == 3       \* lines of a log text
MaxTick == 3        \* timestamps are 0, 500, ..., MaxTick * 500 ns

----------------------------------------------------------------------------
(***************************************************************************)
(* Log text.  A line is abstracted to the parts the two patterns read:     *)
(*   ev     which event text the line holds after the timestamp            *)
(*   step   whether "run_docker.cwl" follows the event on the line         *)
(*   digits number of fractional-second digits before the "Z"              *)
(*   valid  whether the date and time fields are in range                  *)
(*   ns     the timestamp, in nanoseconds from a reference instant         *)
(* Every line starts with "STDERR: " and a timestamp, as toil's do.        *)
(***************************************************************************)
Times == {t * 500 : t \in 0..MaxTick}

Lines ==
    [ev : {"issued", "ended"}, step : {"run_docker"}, digits : {9},
     valid : {TRUE}, ns : Times]
    \cup [ev : {"issued", "ended"}, step : {"run_docker"}, digits : {9},
          valid : {FALSE}, ns : {0}]
    \cup [ev : {"issued"}, step : {"run_docker"}, digits : {6},
          valid : {TRUE}, ns : {0}]
    \cup [ev : {"ended"}, step : {"other"}, digits : {9},
          valid : {TRUE}, ns : {0}]
    \cup [ev : {"other"}, step : {"run_docker"}, digits : {9},
          valid : {TRUE}, ns : {0}]

Logs == UNION {[1..n -> Lines] : n \in 0..MaxLines}

\* r"STDERR: ([\d\-T:]+?\.\d{6})\d+?Z.*?<event>.*?run_docker\.cwl": six
\* fractional digits are captured and at least one more must precede the Z;
\* "." does not match a newline, so the whole match lies on one line.
LineMatches(line, event) ==
    /\ line.digits >= 7
    /\ line.ev = event
    /\ line.step = "run_docker"

\* re.search: the leftmost match, here the first matching line (0: None).
SearchLast(text, event) ==
    LET hits == {i \in 1..Len(text) : LineMatches(text[i], event)}
    IN  IF hits = {} THEN 0
        ELSE CHOOSE i \in hits : \A j \in hits : j <= i

re_search(text, event) ==
    LET hits == {i \in 1..Len(text) : LineMatches(text[i], event)}
    IN  IF hits = {} THEN 0
        ELSE CHOOSE i \in hits : \A j \in hits : i <= j

\* .group(1): the timestamp cut after its sixth fractional digit.
group1(line) == [valid |-> line.valid, us |-> line.ns \div 1000]

Seconds(us) == [kind |-> "seconds", us |-> us]
Sentinel == [kind |-> "run_docker step not found", us |-> 0]
Raised(exc) == [kind |-> exc, us |-> 0]

\* calc_exec_time on the text of the opened file.  A missing match raises
\* AttributeError at .group, which the except clause turns into the
\* sentinel; datetime.fromisoformat raises ValueError on out-of-range
\* fields, which no clause catches.  total_seconds() is kept in whole
\* microseconds.
calc_exec_time(text) ==
    LET s == re_search(text, "issued")
        e == re_search(text, "ended")
    IN  IF s = 0 THEN Sentinel
        ELSE IF ~group1(text[s]).valid THEN Raised("ValueError")
        ELSE IF e = 0 THEN Sentinel
        ELSE IF ~group1(text[e]).valid THEN Raised("ValueError")
        ELSE Seconds(group1(text[e]).us - group1(text[s]).us)

CalcInit ==
    /\ log \in Logs
    /\ calc_out = Raised("")
    /\ cpc = "ready"

CalcIdle ==
    /\ log = <<>>
    /\ calc_out = Raised("")
    /\ cpc = "idle"

CalcExecTime ==
    /\ cpc = "ready"
    /\ calc_out' = calc_exec_time(log)
    /\ cpc' = "returned"
    /\ UNCHANGED log
    /\ UNCHANGED <<cntVars, repVars, mainVars>>

----------------------------------------------------------------------------
(***************************************************************************)
(* The remote platform as print_synapse_reports.py reads it: challenges,   *)
(* their participant teams and evaluation queues, and the submissions in   *)
(* each queue.  Contents are fixed for a run.                              *)
(***************************************************************************)
MaxEvals == 2       \* length of the `evaluations` argument
MaxDate == 3        \* datetimes are 0..MaxDate seconds after 1970-01-01T00:00:00
MaxChallenges == 3  \* length of args.challenge_ids

None == <<>>
Some(v) == <<v>>

Challenges == {"syn1", "syn2", "syn3"}

\* GET /entity/{challenge}/challenge
ChallengeObj(c) ==
    CASE c = "syn1" -> [id |-> "4001", participantTeamId |-> "team1"]
      [] c = "syn2" -> [id |-> "4002", participantTeamId |-> "team2"]
      [] OTHER      -> [id |-> "4003", participantTeamId |-> "team3"]

\* GET /entity/{challenge}/evaluation: the "results" list
EvaluationObjs(c) ==
    CASE c = "syn1" ->
           << [id |-> "e1", name |-> <<"M", "a", "i", "n">>],
              [id |-> "e2", name |-> <<"F", "i", "n", "a", "l">>],
              [id |-> "e3", name |-> <<"T", "E", "S", "T", " ", "q">>] >>
      [] c = "syn2" ->
           << [id |-> "e4", name |-> <<"R", "o", "u", "n", "d", "1">>],
              [id |-> "e5", name |-> <<"W", "r", "i", "t", "e", "-", "U", "p">>] >>
      [] OTHER ->
           << [id |-> "e6", name |-> <<"U", "W", " ", "r", "u", "n">>],
              [id |-> "e7", name |-> <<"O", "p", "e", "n">>] >>

EvalIds == {"e1", "e2", "e3", "e4", "e5", "e6", "e7"}

\* teams._get_team_set: the member records of a team
TeamSet(team) ==
    CASE team = "team1" -> {[ownerId |-> u, teamId |-> team] : u \in 1..10}
      [] team = "team2" -> {[ownerId |-> u, teamId |-> team] : u \in 9..12}
      [] OTHER          -> {[ownerId |-> u, teamId |-> team] : u \in {1, 13}}

Sub(n, status, createdOn) ==
    [id |-> n, status |-> status, createdOn |-> createdOn]

\* The rows of evaluation_{eval_id}; createdOn is in epoch milliseconds.
Queue(eval_id) ==
    CASE eval_id = "e1" -> {Sub(101, "ACCEPTED", 500), Sub(102, "ACCEPTED", 1000),
                            Sub(103, "ACCEPTED", 1500), Sub(104, "INVALID", 1000)}
      [] eval_id = "e2" -> {Sub(201, "ACCEPTED", 2000), Sub(202, "ACCEPTED", 2500)}
      [] eval_id = "e3" -> {Sub(301, "ACCEPTED", 1000), Sub(302, "ACCEPTED", 1200)}
      [] eval_id = "e4" -> {Sub(401, "ACCEPTED", 1000), Sub(402, "ACCEPTED", 1500),
                            Sub(403, "ACCEPTED", 3000), Sub(404, "REJECTED", 500)}
      [] eval_id = "e5" -> {Sub(501, "ACCEPTED", 2000)}
      [] eval_id = "e6" -> {Sub(601, "ACCEPTED", 1000)}
      [] OTHER          -> {Sub(701, "ACCEPTED", 2000), Sub(702, "RECEIVED", 2000)}

\* utils.evaluation_queue_query(syn, query, limit=13): every row the query
\* selects, fetched page by page.
evaluation_queue_query(query) ==
    {sub \in Queue(query.eval) :
        /\ query.status # None => sub.status = query.status[1]
        /\ query.ge # None => sub.createdOn >= query.ge[1]
        /\ query.le # None => sub.createdOn <= query.le[1]}

\* convert_to_epoch: strptime to the second, timestamp() * 1000 cut to an
\* int.  The local zone is taken to be UTC.
convert_to_epoch(dt) == dt * 1000

\* Python truth of `start` / `end` inside count_submissions: None is false,
\* and so is the int 0.
Truthy(v) == v # None /\ v[1] # 0

\* Lines 86-90: the query text for one queue.
BuildQueryOverwrite(eval_id, start, end) ==
    [eval |-> eval_id,
     status |-> IF Truthy(start) \/ Truthy(end) THEN None ELSE Some("ACCEPTED"),
     ge |-> IF Truthy(start) THEN start ELSE None,
     le |-> IF Truthy(end) THEN end ELSE None]

BuildQuery(eval_id, start, end) ==
    [eval |-> eval_id,
     status |-> Some("ACCEPTED"),
     ge |-> IF Truthy(start) THEN start ELSE None,
     le |-> IF Truthy(end) THEN end ELSE None]

\* Lines 84-93: the loop over the queues, with the queries it issues.
RECURSIVE Tally(_, _, _)
Tally(evaluations, start, end) ==
    IF evaluations = <<>> THEN [total |-> 0, queries |-> <<>>]
    ELSE LET query == BuildQuery(Head(evaluations), start, end)
             rest == Tally(Tail(evaluations), start, end)
         IN  [total |-> Cardinality(evaluation_queue_query(query)) + rest.total,
              queries |-> <<query>> \o rest.queries]

\* `start` and `end` are the datetimes given (a non-empty string is true).
count_submissions(evaluations, start, end) ==
    Tally(evaluations,
          IF start # None THEN Some(convert_to_epoch(start[1])) ELSE start,
          IF end # None THEN Some(convert_to_epoch(end[1])) ELSE end)

Dates == {None} \cup {Some(d) : d \in 0..MaxDate}

CntInit ==
    /\ cnt_evals \in UNION {[1..n -> EvalIds] : n \in 0..MaxEvals}
    /\ cnt_start \in Dates
    /\ cnt_end \in Dates
    /\ cnt_out = [total |-> 0, queries |-> <<>>]
    /\ qpc = "ready"

CntIdle ==
    /\ cnt_evals = <<>>
    /\ cnt_start = None
    /\ cnt_end = None
    /\ cnt_out = [total |-> 0, queries |-> <<>>]
    /\ qpc = "idle"

CountSubmissions ==
    /\ qpc = "ready"
    /\ cnt_out' = count_submissions(cnt_evals, cnt_start, cnt_end)
    /\ qpc' = "returned"
    /\ UNCHANGED <<cnt_evals, cnt_start, cnt_end>>
    /\ UNCHANGED <<calcVars, repVars, mainVars>>

----------------------------------------------------------------------------
(***************************************************************************)
(* print_report                                                            *)
(***************************************************************************)
Lower(ch) ==
    CASE ch = "E" -> "e" [] ch = "S" -> "s" [] ch = "T" -> "t"
      [] ch = "U" -> "u" [] ch = "W" -> "w" [] ch = "R" -> "r"
      [] ch = "I" -> "i" [] ch = "P" -> "p" [] OTHER -> ch

HasSubstring(name, pat) ==
    \E i \in 1..Len(name) :
        /\ i + Len(pat) - 1 <= Len(name)
        /\ \A j \in 1..Len(pat) : Lower(name[i + j - 1]) = pat[j]

\* re.search(r"test|write-up|uw", name, re.I)
NameIsFiltered(name) ==
    \/ HasSubstring(name, <<"t", "e", "s", "t">>)
    \/ HasSubstring(name, <<"w", "r", "i", "t", "e", "-", "u", "p">>)
    \/ HasSubstring(name, <<"u", "w">>)

RECURSIVE KeepIds(_)
KeepIds(objs) ==
    IF objs = <<>> THEN <<>>
    ELSE (IF NameIsFiltered(Head(objs).name) THEN <<>> ELSE <<Head(objs).id>>)
         \o KeepIds(Tail(objs))

get_challenge_info(challenge) ==
    [c_id |-> ChallengeObj(challenge).id,
     team |-> ChallengeObj(challenge).participantTeamId,
     eval_ids |-> KeepIds(EvaluationObjs(challenge))]

\* Line 107: the accumulator after one more challenge.
UnionOverwrite(users, participants) == participants

AddParticipants(users, participants) == users \cup participants

\* Line 113
AddSubmissionsKeepLast(total, submissions) == submissions

AddSubmissions(total, submissions) == total + submissions

RepInit ==
    /\ challenge_ids \in UNION {[1..n -> Challenges] : n \in 1..MaxChallenges}
    /\ start_date \in Dates
    /\ end_date \in Dates
    /\ k = 0
    /\ unique_users = {}
    /\ total_submissions = 0
    /\ printed = <<>>
    /\ totals = <<>>
    /\ rpc = "loop"

RepIdle ==
    /\ challenge_ids = <<>>
    /\ start_date = None
    /\ end_date = None
    /\ k = 0
    /\ unique_users = {}
    /\ total_submissions = 0
    /\ printed = <<>>
    /\ totals = <<>>
    /\ rpc = "idle"

\* One pass of the body of `for challenge in args.challenge_ids`.
PrintChallenge ==
    /\ rpc = "loop"
    /\ k < Len(challenge_ids)
    /\ LET info == get_challenge_info(challenge_ids[k + 1])
           participants == {user.ownerId : user \in TeamSet(info.team)}
           submissions == count_submissions(info.eval_ids, start_date,
                                            end_date).total
       IN  /\ unique_users' = AddParticipants(unique_users, participants)
           /\ total_submissions' = AddSubmissions(total_submissions, submissions)
           /\ printed' = Append(printed,
                                [c_id |-> info.c_id, team |-> info.team,
                                 registrants |-> Cardinality(participants),
                                 submissions |-> submissions])
    /\ k' = k + 1
    /\ UNCHANGED <<challenge_ids, start_date, end_date, totals, rpc>>
    /\ UNCHANGED <<calcVars, cntVars, mainVars>>

\* Lines 119-121, once the list is exhausted.
PrintTotals ==
    /\ rpc = "loop"
    /\ k = Len(challenge_ids)
    /\ totals' = <<Cardinality(unique_users), total_submissions>>
    /\ rpc' = "done"
    /\ UNCHANGED <<challenge_ids, start_date, end_date, k, unique_users,
                   total_submissions, printed>>
    /\ UNCHANGED <<calcVars, cntVars, mainVars>>

----------------------------------------------------------------------------
(***************************************************************************)
(* extract_exec_time.main                                                  *)
(***************************************************************************)
MaxRows == 2        \* rows of the accepted-submissions table

NoName == [kind |-> "", uid |-> 0]
NoCell == [kind |-> "", us |-> 0]

\* get_submissions followed by the two added, empty columns
SubmissionsDf(n) ==
    [i \in 1..n |-> [id |-> 9600 + i, submitterid |-> 3300 + i,
                     team_name |-> NoName, exec_time |-> NoCell]]

\* What a remote call can answer.
Responses == {"ok", "SynapseHTTPError", "ConnectionError"}

\* What syn.get can leave in {filename}.zip: an archive holding
\* {filename}.txt, an archive without it, or a file that is no archive.
Archives == {"zip", "zip_without_log", "not_zip"}

Mark(ev, ns, valid) ==
    [ev |-> ev, step |-> "run_docker", digits |-> 9, valid |-> valid, ns |-> ns]

\* The log texts the downloaded archives hold.
MainLogs ==
    { <<>>,
      <<Mark("issued", 0, TRUE)>>,
      <<Mark("issued", 0, TRUE), Mark("ended", 1000, TRUE)>>,
      <<Mark("issued", 0, FALSE)>>,
      <<Mark("issued", 0, TRUE), Mark("ended", 1000, FALSE)>> }

\* get_team_name, given what getTeam and getUserProfile answer:
\* the name returned or the exception raised, and the lookups made.
get_team_name_catch_all(uid, team, profile) ==
    IF team = "ok"
    THEN [name |-> [kind |-> "team", uid |-> uid], exc |-> "",
          lookups |-> <<"getTeam">>]
    ELSE IF profile = "ok"
    THEN [name |-> [kind |-> "user", uid |-> uid], exc |-> "",
          lookups |-> <<"getTeam", "getUserProfile">>]
    ELSE [name |-> NoName, exc |-> profile,
          lookups |-> <<"getTeam", "getUserProfile">>]

get_team_name(uid, team, profile) ==
    IF team = "ok"
    THEN [name |-> [kind |-> "team", uid |-> uid], exc |-> "",
          lookups |-> <<"getTeam">>]
    ELSE IF team = "SynapseHTTPError"
    THEN IF profile = "ok"
         THEN [name |-> [kind |-> "user", uid |-> uid], exc |-> "",
               lookups |-> <<"getTeam", "getUserProfile">>]
         ELSE [name |-> NoName, exc |-> profile,
               lookups |-> <<"getTeam", "getUserProfile">>]
    ELSE [name |-> NoName, exc |-> team, lookups |-> <<"getTeam">>]

\* unzip_file: what the working directory holds afterwards.
unzip_file(files, id, kind) ==
    IF kind = "zip" THEN files \cup {<<id, ".txt">>} ELSE files

\* Lines 136-137: remove the zip, then the txt; a missing file raises.
RemoveZipOnly(files, id) ==
    IF <<id, ".zip">> \notin files
    THEN [files |-> files, exc |-> "FileNotFoundError"]
    ELSE [files |-> files \ {<<id, ".zip">>}, exc |-> ""]

remove_files(files, id) ==
    IF <<id, ".zip">> \notin files
    THEN [files |-> files, exc |-> "FileNotFoundError"]
    ELSE IF <<id, ".txt">> \notin files
    THEN [files |-> files \ {<<id, ".zip">>}, exc |-> "FileNotFoundError"]
    ELSE [files |-> files \ {<<id, ".zip">>, <<id, ".txt">>}, exc |-> ""]

\* Lines 140-141: where control goes after a row.
NeverBreak(flag) == "for"

AfterRow(flag) == IF flag THEN "to_csv" ELSE "for"

NoCalls == [get_team_name |-> 0, getTeam |-> 0, getUserProfile |-> 0,
            get |-> 0, calc_exec_time |-> 0, remove |-> 0]

Count(seq, x) == Cardinality({i \in 1..Len(seq) : seq[i] = x})

MainInit ==
    /\ dryrun \in BOOLEAN
    /\ rows \in {SubmissionsDf(n) : n \in 0..MaxRows}
    /\ idx = 0
    /\ mpc = "for"
    /\ disk = {}
    /\ archive = ""
    /\ content = <<>>
    /\ csv = <<>>
    /\ err = ""
    /\ calls = NoCalls
    /\ env = [remote_ok |-> TRUE, archives_ok |-> TRUE,
              team |-> "", profile |-> ""]

MainIdle ==
    /\ dryrun = FALSE
    /\ rows = <<>>
    /\ idx = 0
    /\ mpc = "idle"
    /\ disk = {}
    /\ archive = ""
    /\ content = <<>>
    /\ csv = <<>>
    /\ err = ""
    /\ calls = NoCalls
    /\ env = [remote_ok |-> TRUE, archives_ok |-> TRUE,
              team |-> "", profile |-> ""]

\* Line 119: iterrows yields the next row, or the loop ends.
ForNextRow ==
    /\ mpc = "for"
    /\ idx < Len(rows)
    /\ idx' = idx + 1
    /\ mpc' = "team"
    /\ UNCHANGED <<dryrun, rows, disk, archive, content, csv, err, calls, env>>
    /\ UNCHANGED <<calcVars, cntVars, repVars>>

ForExhausted ==
    /\ mpc = "for"
    /\ idx = Len(rows)
    /\ mpc' = "to_csv"
    /\ UNCHANGED <<dryrun, rows, idx, disk, archive, content, csv, err, calls, env>>
    /\ UNCHANGED <<calcVars, cntVars, repVars>>

\* Lines 121-122
GetTeamName ==
    /\ mpc = "team"
    /\ \E team \in Responses, profile \in Responses :
        LET r == get_team_name(rows[idx].submitterid, team, profile)
            asked == Count(r.lookups, "getUserProfile") > 0
        IN  /\ calls' = [calls EXCEPT
                           !.get_team_name = @ + 1,
                           !.getTeam = @ + Count(r.lookups, "getTeam"),
                           !.getUserProfile = @ + Count(r.lookups, "getUserProfile")]
            /\ env' = [env EXCEPT
                         !.team = team,
                         !.profile = IF asked THEN profile ELSE "",
                         !.remote_ok = @ /\ team = "ok"]
            /\ IF r.exc = ""
               THEN /\ rows' = [rows EXCEPT ![idx].team_name = r.name]
                    /\ mpc' = "download"
                    /\ err' = err
               ELSE /\ rows' = rows
                    /\ mpc' = "aborted"
                    /\ err' = r.exc
    /\ UNCHANGED <<dryrun, idx, disk, archive, content, csv>>
    /\ UNCHANGED <<calcVars, cntVars, repVars>>

\* Lines 125-128: getSubmissionStatus, find_log_file and syn.get.
Download ==
    /\ mpc = "download"
    /\ \E resp \in Responses :
        IF resp = "ok"
        THEN /\ \E kind \in Archives :
                  /\ archive' = kind
                  /\ content' \in (IF kind = "zip" THEN MainLogs ELSE {<<>>})
                  /\ env' = [env EXCEPT !.archives_ok = @ /\ kind = "zip"]
             /\ disk' = disk \cup {<<rows[idx].id, ".zip">>}
             /\ calls' = [calls EXCEPT !.get = @ + 1]
             /\ mpc' = "unzip"
             /\ err' = err
        ELSE /\ env' = [env EXCEPT !.remote_ok = FALSE]
             /\ mpc' = "aborted"
             /\ err' = resp
             /\ UNCHANGED <<disk, archive, content, calls>>
    /\ UNCHANGED <<dryrun, rows, idx, csv>>
    /\ UNCHANGED <<calcVars, cntVars, repVars>>

\* Line 131
UnzipFile ==
    /\ mpc = "unzip"
    /\ disk' = unzip_file(disk, rows[idx].id, archive)
    /\ mpc' = "calc"
    /\ UNCHANGED <<dryrun, rows, idx, archive, content, csv, err, calls, env>>
    /\ UNCHANGED <<calcVars, cntVars, repVars>>

\* Lines 132-133: open raises when unzip_file extracted no {filename}.txt.
CalcRow ==
    /\ mpc = "calc"
    /\ calls' = [calls EXCEPT !.calc_exec_time = @ + 1]
    /\ IF <<rows[idx].id, ".txt">> \notin disk
       THEN /\ err' = "FileNotFoundError"
            /\ mpc' = "aborted"
            /\ rows' = rows
       ELSE LET out == calc_exec_time(content)
            IN  IF out.kind \in {"seconds", Sentinel.kind}
                THEN /\ rows' = [rows EXCEPT ![idx].exec_time = out]
                     /\ mpc' = "remove"
                     /\ err' = err
                ELSE /\ err' = out.kind
                     /\ mpc' = "aborted"
                     /\ rows' = rows
    /\ UNCHANGED <<dryrun, idx, disk, archive, content, csv, env>>
    /\ UNCHANGED <<calcVars, cntVars, repVars>>

\* Lines 136-137
RemoveFiles ==
    /\ mpc = "remove"
    /\ LET r == remove_files(disk, rows[idx].id)
       IN  /\ disk' = r.files
           /\ err' = r.exc
           /\ mpc' = IF r.exc = "" THEN "dryrun" ELSE "aborted"
    /\ calls' = [calls EXCEPT !.remove = @ + 1]
    /\ archive' = ""
    /\ content' = <<>>
    /\ UNCHANGED <<dryrun, rows, idx, csv, env>>
    /\ UNCHANGED <<calcVars, cntVars, repVars>>

\* Lines 140-141
DryrunCheck ==
    /\ mpc = "dryrun"
    /\ mpc' = AfterRow(dryrun)
    /\ UNCHANGED <<dryrun, rows, idx, disk, archive, content, csv, err, calls, env>>
    /\ UNCHANGED <<calcVars, cntVars, repVars>>

\* Line 142
ToCsv ==
    /\ mpc = "to_csv"
    /\ csv' = <<rows>>
    /\ mpc' = "done"
    /\ UNCHANGED <<dryrun, rows, idx, disk, archive, content, err, calls, env>>
    /\ UNCHANGED <<calcVars, cntVars, repVars>>

----------------------------------------------------------------------------
(***************************************************************************)
(* Specifications                                                          *)
(***************************************************************************)
InitCalc == CalcInit /\ CntIdle /\ RepIdle /\ MainIdle
NextCalc == CalcExecTime
SpecCalc == InitCalc /\ [][NextCalc]_vars

InitCount == CalcIdle /\ CntInit /\ RepIdle /\ MainIdle
NextCount == CountSubmissions
SpecCount == InitCount /\ [][NextCount]_vars

InitReport == CalcIdle /\ CntIdle /\ RepInit /\ MainIdle
NextReport == PrintChallenge \/ PrintTotals
SpecReport == InitReport /\ [][NextReport]_vars

InitMain == CalcIdle /\ CntIdle /\ RepIdle /\ MainInit
NextMain ==
    \/ ForNextRow
    \/ ForExhausted
    \/ GetTeamName
    \/ Download
    \/ UnzipFile
    \/ CalcRow
    \/ RemoveFiles
    \/ DryrunCheck
    \/ ToCsv
SpecMain == InitMain /\ [][NextMain]_vars

Init == InitCalc \/ InitCount \/ InitReport \/ InitMain
Next == NextCalc \/ NextCount \/ NextReport \/ NextMain
Spec == Init /\ [][Next]_vars

----------------------------------------------------------------------------
(***************************************************************************)
(* Properties of calc_exec_time (SpecCalc)                                 *)
(***************************************************************************)
HasMarker(text, event) ==
    \E i \in 1..Len(text) : LineMatches(text[i], event)

WellFormed(line, event) == LineMatches(line, event) /\ line.valid

IsFirst(text, i, event) ==
    /\ LineMatches(text[i], event)
    /\ \A m \in 1..(i - 1) : ~LineMatches(text[m], event)

Micros(line) == line.ns \div 1000

\* C1: a log text in which the start marker line or the end marker line is
\* absent makes calc_exec_time return the sentinel string; it never raises.
C1_SentinelWhenMarkerAbsent ==
    (cpc = "returned" /\ (~HasMarker(log, "issued") \/ ~HasMarker(log, "ended")))
        => calc_out = Sentinel

\* C2 as stated, read on the calls that return a number: for any
\* well-formed start marker (T1) and well-formed end marker (T2) of the log
\* with T1 < T2, the number returned is T2 - T1 (each cut to the
\* microsecond) and is non-negative, whatever other marker lines and
\* whatever line order the log has.
C2_AnyMarkerPair ==
    (cpc = "returned" /\ calc_out.kind = "seconds") =>
        \A i, j \in 1..Len(log) :
            (/\ WellFormed(log[i], "issued")
             /\ WellFormed(log[j], "ended")
             /\ log[i].ns < log[j].ns)
            => /\ calc_out = Seconds(Micros(log[j]) - Micros(log[i]))
               /\ calc_out.us >= 0

\* C2 amended: when the first start marker line of the log (T1) and the
\* first end marker line of the log (T2) are both well-formed and T1 < T2,
\* the result is T2 - T1 (each cut to the microsecond) and is non-negative,
\* whatever lines follow them and whichever of the two comes first.
C2_FirstMarkerPair ==
    cpc = "returned" =>
        \A i, j \in 1..Len(log) :
            (/\ IsFirst(log, i, "issued") /\ log[i].valid
             /\ IsFirst(log, j, "ended") /\ log[j].valid
             /\ log[i].ns < log[j].ns)
            => /\ calc_out = Seconds(Micros(log[j]) - Micros(log[i]))
               /\ calc_out.us >= 0

\* A log with two start markers, whose end marker precedes both in the
\* file, measured from the first start marker.
C2_Witness ==
    /\ cpc = "returned"
    /\ Len(log) = 3
    /\ WellFormed(log[1], "ended")
    /\ WellFormed(log[2], "issued")
    /\ WellFormed(log[3], "issued")
    /\ log[2].ns < log[1].ns
    /\ log[3].ns # log[2].ns
    /\ calc_out = Seconds(Micros(log[1]) - Micros(log[2]))

----------------------------------------------------------------------------
(***************************************************************************)
(* Properties of count_submissions (SpecCount)                             *)
(***************************************************************************)
RECURSIVE SumSeq(_)
SumSeq(ns) == IF ns = <<>> THEN 0 ELSE Head(ns) + SumSeq(Tail(ns))

\* The submissions of a queue the claimed query selects.
Selected(eval_id, start, end) ==
    {sub \in Queue(eval_id) :
        /\ sub.status = "ACCEPTED"
        /\ start # None => sub.createdOn >= 1000 * start[1]
        /\ end # None => sub.createdOn <= 1000 * end[1]}

\* C3: one query per listed queue, a bound's predicate present exactly when
\* that bound was supplied (epoch 0 included), and the result is the number
\* of ACCEPTED submissions within the supplied bounds, summed over the
\* listed queues.
C3_CountWithinBounds ==
    qpc = "returned" =>
        /\ Len(cnt_out.queries) = Len(cnt_evals)
        /\ \A i \in 1..Len(cnt_evals) :
            /\ cnt_out.queries[i].eval = cnt_evals[i]
            /\ cnt_out.queries[i].status = Some("ACCEPTED")
            /\ (cnt_out.queries[i].ge # None) <=> (cnt_start # None)
            /\ (cnt_out.queries[i].le # None) <=> (cnt_end # None)
        /\ cnt_out.total =
             SumSeq([i \in 1..Len(cnt_evals) |->
                        Cardinality(Selected(cnt_evals[i], cnt_start, cnt_end))])

\* C4: with no bounds the count is the sum of the per-queue ACCEPTED counts;
\* a call with a start bound (an end bound) never counts more than the same
\* call without it.
C4_BoundsNeverIncrease ==
    qpc = "returned" =>
        /\ (cnt_start = None /\ cnt_end = None) =>
              cnt_out.total =
                SumSeq([i \in 1..Len(cnt_evals) |->
                          Cardinality({sub \in Queue(cnt_evals[i]) :
                                          sub.status = "ACCEPTED"})])
        /\ cnt_start # None =>
              cnt_out.total <= count_submissions(cnt_evals, None, cnt_end).total
        /\ cnt_end # None =>
              cnt_out.total <= count_submissions(cnt_evals, cnt_start, None).total

\* A start bound that cuts the count, and an end bound that cuts it further.
C4_Witness ==
    /\ qpc = "returned"
    /\ cnt_start # None
    /\ cnt_end # None
    /\ cnt_out.total > 0
    /\ cnt_out.total < count_submissions(cnt_evals, None, cnt_end).total
    /\ cnt_out.total < count_submissions(cnt_evals, cnt_start, None).total

----------------------------------------------------------------------------
(***************************************************************************)
(* Properties of print_report (SpecReport)                                 *)
(***************************************************************************)
Owners(team) == {member.ownerId : member \in TeamSet(team)}

\* Two challenges with 5 and 3 submissions and 10 and 4 participants, 2 of
\* them in both teams, have been reported.
TwoChallengeScenario ==
    /\ rpc = "done"
    /\ Len(printed) = 2
    /\ \E a, b \in 1..2 :
        /\ a # b
        /\ printed[a].submissions = 5 /\ printed[a].registrants = 10
        /\ printed[b].submissions = 3 /\ printed[b].registrants = 4
    /\ Cardinality(Owners(printed[1].team) \cap Owners(printed[2].team)) = 2

\* C5 as stated: in that scenario the totals printed are 8 unique
\* registrants and 8 submissions.
C5_EightRegistrants ==
    TwoChallengeScenario => totals = <<8, 8>>

\* C5 amended: in that scenario the totals printed are 12 unique registrants
\* (10 + 4 - 2) and 8 submissions.
C5_TwelveRegistrants ==
    TwoChallengeScenario => totals = <<12, 8>>

C5_Witness ==
    TwoChallengeScenario /\ challenge_ids = <<"syn2", "syn1">>

Occurrences(c) ==
    Cardinality({i \in 1..Len(challenge_ids) : challenge_ids[i] = c})

ChallengeCount(c) ==
    count_submissions(get_challenge_info(c).eval_ids, start_date, end_date).total

\* C10: after any prefix of the challenge list, unique_users is the union of
\* the participants of the challenges processed and total_submissions the
\* sum of the counts printed; the final registrant total counts each user
\* once, is at most the sum of the per-challenge registrant counts, and both
\* totals depend only on how often each challenge is listed, not on the
\* order.
C10_LoopInvariant ==
    /\ Len(printed) = k
    /\ unique_users =
         UNION {Owners(ChallengeObj(challenge_ids[i]).participantTeamId) :
                  i \in 1..k}
    /\ total_submissions = SumSeq([i \in 1..k |-> printed[i].submissions])
    /\ rpc = "done" =>
         /\ k = Len(challenge_ids)
         /\ totals[1] =
              Cardinality(UNION {Owners(ChallengeObj(c).participantTeamId) :
                                   c \in {challenge_ids[i] : i \in 1..k}})
         /\ totals[1] <= SumSeq([i \in 1..k |-> printed[i].registrants])
         /\ \E order \in [1..Cardinality(Challenges) -> Challenges] :
              /\ \A c \in Challenges : \E i \in DOMAIN order : order[i] = c
              /\ totals[2] =
                   SumSeq([i \in DOMAIN order |->
                             Occurrences(order[i]) * ChallengeCount(order[i])])

\* A list that names a challenge twice, around another one with which it
\* shares participants.
C10_Witness ==
    /\ rpc = "done"
    /\ challenge_ids = <<"syn1", "syn2", "syn1">>
    /\ totals[1] < SumSeq([i \in 1..k |-> printed[i].registrants])
    /\ totals[2] > 0

----------------------------------------------------------------------------
(***************************************************************************)
(* Properties of extract_exec_time.main (SpecMain)                         *)
(***************************************************************************)
RowsDone == IF Len(rows) = 0 THEN 0 ELSE 1

\* C6 as stated: a dry run that reaches the CSV has processed exactly one
\* row (one team lookup, one download, one extraction, one cleanup),
\* whatever the number of rows, zero included.
C6_ExactlyOneRow ==
    (dryrun /\ mpc = "done") =>
        /\ idx = 1
        /\ calls.get_team_name = 1
        /\ calls.get = 1
        /\ calls.calc_exec_time = 1
        /\ calls.remove = 1
        /\ csv # <<>>

\* C6 amended: a dry run never starts a second row, and one that reaches the
\* CSV has processed exactly one row when the table has any and none when
\* it is empty (one team lookup, download, extraction and cleanup per row
\* processed).
C6_AtMostOneRow ==
    dryrun =>
        /\ idx <= 1
        /\ calls.get_team_name <= 1
        /\ calls.get <= 1
        /\ calls.calc_exec_time <= 1
        /\ calls.remove <= 1
        /\ mpc = "done" =>
            /\ idx = RowsDone
            /\ calls.get_team_name = RowsDone
            /\ calls.get = RowsDone
            /\ calls.calc_exec_time = RowsDone
            /\ calls.remove = RowsDone
            /\ csv # <<>>

C6_Witness ==
    /\ dryrun
    /\ mpc = "done"
    /\ Len(rows) >= 2
    /\ calls.get = 1
    /\ csv # <<>>

\* C7: a successful team lookup gives the team's name with no profile
\* lookup; an HTTP error of the team lookup gives exactly one profile lookup
\* and its userName; any other failure of the team lookup and any failure
\* of the profile lookup ends the run with that error, with no second
\* attempt and nothing after it.
C7_TeamLookup ==
    [][/\ mpc # "aborted"
       /\ mpc = "team" =>
            /\ calls'.getTeam = calls.getTeam + 1
            /\ env'.team = "ok" =>
                 /\ calls'.getUserProfile = calls.getUserProfile
                 /\ rows'[idx].team_name =
                      [kind |-> "team", uid |-> rows[idx].submitterid]
                 /\ mpc' = "download" /\ err' = ""
            /\ env'.team = "SynapseHTTPError" =>
                 /\ calls'.getUserProfile = calls.getUserProfile + 1
                 /\ env'.profile = "ok" =>
                      /\ rows'[idx].team_name =
                           [kind |-> "user", uid |-> rows[idx].submitterid]
                      /\ mpc' = "download" /\ err' = ""
                 /\ env'.profile # "ok" =>
                      /\ mpc' = "aborted" /\ err' = env'.profile
                      /\ rows' = rows
            /\ env'.team \notin {"ok", "SynapseHTTPError"} =>
                 /\ calls'.getUserProfile = calls.getUserProfile
                 /\ mpc' = "aborted" /\ err' = env'.team
                 /\ rows' = rows
      ]_vars

\* The fallback has answered for the second row.
C7_Witness ==
    /\ mpc = "download"
    /\ idx = 2
    /\ env.team = "SynapseHTTPError"
    /\ env.profile = "ok"
    /\ rows[idx].team_name.kind = "user"

\* C8: in a run without the dry-run flag in which every remote call
\* succeeds and every download is a valid archive, no log aborts the batch:
\* the loop reaches every row and the CSV has one row per submission whose
\* exec_time(s) cell is a number of seconds or the sentinel.
C8_BatchCompletes ==
    (~dryrun /\ env.remote_ok /\ env.archives_ok) =>
        /\ mpc # "aborted"
        /\ mpc = "done" =>
            /\ idx = Len(rows)
            /\ Len(csv[1]) = Len(rows)
            /\ \A i \in 1..Len(rows) :
                 /\ csv[1][i].id = rows[i].id
                 /\ csv[1][i].exec_time.kind \in {"seconds", Sentinel.kind}

InLoopBody == mpc \in {"unzip", "calc", "remove", "aborted"}

\* C9 as stated, leaving aside the runs that calc_exec_time's ValueError
\* ends: the directory holds the files of the current submission only, both
\* are gone before the next download starts, and none is left when the run
\* ends, normally or by a propagated error.
C9_NoFileLeftEver ==
    /\ \A f \in disk : idx >= 1 /\ f[1] = rows[idx].id
    /\ ~InLoopBody => disk = {}
    /\ (mpc \in {"done", "aborted"} /\ err # "ValueError") => disk = {}

\* C9 amended: the directory holds the files of the current submission
\* only, both are gone before the next download starts, and none is left
\* when the run ends normally; an error that propagates after a record's
\* download and before its removal leaves that record's files behind.
C9_OneRecordOnDisk ==
    /\ \A f \in disk : idx >= 1 /\ f[1] = rows[idx].id
    /\ ~InLoopBody => disk = {}
    /\ (mpc = "aborted" /\ disk # {}) =>
         /\ <<rows[idx].id, ".zip">> \in disk
         /\ err \in {"FileNotFoundError", "ValueError"}

\* The second record's pair is on disk and the first record's is gone.
C9_Witness ==
    /\ idx = 2
    /\ mpc = "remove"
    /\ disk = {<<rows[2].id, ".zip">>, <<rows[2].id, ".txt">>}
    /\ rows[1].exec_time # NoCell

====
